---- MODULE Spec2Model ----
(***************************************************************************)
(* BitBake parsers (lib/bb/parse/__init__.py): the stat cache, the         *)
(* dependency recorder, the handler dispatcher, the filename decomposition *)
(* cache, the dependency annotations and the signature generator switch,   *)
(* as state machines.                                                      *)
(*                                                                         *)
(* A path is a sequence of components: <<"/", "a", "r.bb">> is /a/r.bb,    *)
(* <<".", "r.bb">> is ./r.bb and <<"r.bb">> is r.bb.  The disk holds       *)
(* regular files only; a path names a regular file or nothing.             *)
(***************************************************************************)
EXTENDS Integers, Sequences, FiniteSets, TLC

VARIABLES
    disk,           \* the file system: absolute path -> stat result or NoFile
    mtime_cache,    \* __mtime_cache: a dict, path string -> fingerprint
    memo,           \* history: what cached_mtime last returned per path
    seen,           \* history: what cached_mtime_noerror last returned per path
    depends,        \* the context's '__depends' list of (path, fingerprint)
    bbpath,         \* the context's BBPATH, a list of directories
    changes,        \* history: number of file changes made so far
    probed,         \* history: candidates a search found absent before its hit
    pkgsplit_cache, \* __pkgsplit_cache__: a dict, filename -> list of parts
    handlers,       \* the registry: a list of handler descriptors
    stack,          \* the handle calls in progress, outermost first
    inchistory,     \* data.inchistory: the inclusion scopes now open
    invoked,        \* history: the entry points invoked, in order
    calls,          \* history: number of handle calls made so far
    func,           \* a decorated function's attributes: name -> set of names
    applied,        \* history: the decorators applied to it, (kind, names)
    siggen,         \* the attribute bb.parse.siggen: <<>> or <<generator>>
    siglog,         \* history: the generators' init and exit calls, in order
    lookup,         \* a cached_mtime call running statement by statement
    last            \* history: the most recent call, its arguments and outcome

statVars == <<disk, mtime_cache, memo, seen, depends, bbpath, changes, probed>>
partsVars == <<pkgsplit_cache>>
handleVars == <<handlers, stack, inchistory, invoked, calls>>
annotVars == <<func, applied>>
sigVars == <<siggen, siglog>>
raceVars == <<lookup>>
restVars == <<annotVars, sigVars, raceVars>>
vars == <<statVars, partsVars, handleVars, restVars, last>>

(* ------------------------------ bounds -------------------------------- *)

MaxMtime == 2       \* distinct modification times a file can show
MaxChanges == 2     \* file changes made by the environment in one run
MaxDeps == 2        \* length up to which '__depends' is followed
MaxHandlers == 2    \* handlers in the registry
MaxCalls == 3       \* handle calls made in one run
MaxDepth == 2       \* handle calls in progress at one time
MaxApplied == 3     \* decorators applied to the one function
MaxInits == 4       \* init_parser calls made in one run

(* ------------------------------- paths -------------------------------- *)

DirA == <<"/", "a">>
DirB == <<"/", "b">>
Cwd == DirA                     \* os.getcwd()
Name == <<"r.bb">>
FileA == DirA \o Name
FileB == DirB \o Name
DotFile == <<".">> \o Name      \* './r.bb', the same file as FileA

Files == {FileA, FileB}                 \* the places of the disk
Paths == {FileA, FileB, DotFile}        \* the path strings callers pass
SearchPaths == {<<DirA, DirB>>, <<DirB, DirA>>}

isabs(f) == Len(f) >= 1 /\ f[1] = "/"
startswith_dotslash(f) == Len(f) >= 2 /\ f[1] = "."
join(p, item) == IF isabs(item) THEN item ELSE p \o item
abspath(f) ==
    IF isabs(f) THEN f
    ELSE IF startswith_dotslash(f) THEN Cwd \o Tail(f)
    ELSE Cwd \o f

(* ---------------------------- file system ----------------------------- *)

\* What os.stat gives for a file.  The files differ in their modification
\* time; one size and one inode number stand for the other two components.
NoFile == [st_mtime_ns |-> 0, st_size |-> 0, st_ino |-> 0]
Sizes == {4}
Inodes == {7}
StatResults == [st_mtime_ns : 1..MaxMtime, st_size : Sizes, st_ino : Inodes]

exists(f) == abspath(f) \in DOMAIN disk /\ disk[abspath(f)] # NoFile
isfile(f) == exists(f)
os_stat(f) == disk[abspath(f)]          \* defined when exists(f); else OSError

Zero == <<>>                            \* the integer 0, the absent sentinel
Fingerprint(res) == <<res.st_mtime_ns, res.st_size, res.st_ino>>
Fingerprints == {Fingerprint(r) : r \in StatResults}

(* dict helpers *)
Put(dict, k, v) == [x \in DOMAIN dict \cup {k} |-> IF x = k THEN v ELSE dict[x]]
Del(dict, k) == [x \in DOMAIN dict \ {k} |-> dict[x]]
EmptyDict == [x \in {} |-> Zero]

NoExc == "none"
Call(op, f, arg, out, exc) ==
    [op |-> op, f |-> f, arg |-> arg, out |-> out, exc |-> exc]
\* A call whose outcome nobody looks at is kept by its name only.
Outcome(obs, call) ==
    IF obs THEN call ELSE Call(call.op, Zero, Zero, Zero, NoExc)

(* ------------------------------ stat cache ---------------------------- *)
\* Each operation is given as the cache it leaves and the outcome it has.

\* a cached_mtime that stats on every call
cached_mtime_cache_restat(cache, f) ==
    IF exists(f) THEN Put(cache, f, Fingerprint(os_stat(f))) ELSE cache
cached_mtime_cache(cache, f) ==
    IF f \notin DOMAIN cache /\ exists(f)
    THEN Put(cache, f, Fingerprint(os_stat(f)))
    ELSE cache
cached_mtime_raises(cache, f) == f \notin DOMAIN cache /\ ~exists(f)
cached_mtime_value(cache, f) == cached_mtime_cache(cache, f)[f]

\* a cached_mtime_noerror that stores the 0 of a failed stat
cached_mtime_noerror_cache_absent(cache, f) ==
    IF f \in DOMAIN cache THEN cache
    ELSE Put(cache, f, IF exists(f) THEN Fingerprint(os_stat(f)) ELSE Zero)
\* a cached_mtime_noerror that stats on every call
cached_mtime_noerror_cache_restat(cache, f) ==
    IF exists(f) THEN Put(cache, f, Fingerprint(os_stat(f))) ELSE cache
cached_mtime_noerror_cache(cache, f) ==
    IF f \notin DOMAIN cache /\ exists(f)
    THEN Put(cache, f, Fingerprint(os_stat(f)))
    ELSE cache
cached_mtime_noerror_value(cache, f) ==
    IF f \notin DOMAIN cache /\ ~exists(f)
    THEN Zero
    ELSE cached_mtime_noerror_cache(cache, f)[f]

check_mtime_cache(cache, f) ==
    IF exists(f) THEN Put(cache, f, Fingerprint(os_stat(f))) ELSE cache
check_mtime_current(f) ==
    IF exists(f) THEN Fingerprint(os_stat(f)) ELSE Zero
check_mtime_value(f, mtime) == check_mtime_current(f) = mtime

\* an update_mtime that rebuilds the cache around the one path
update_mtime_cache_rebuilt(cache, f) ==
    IF exists(f) THEN Put(EmptyDict, f, Fingerprint(os_stat(f))) ELSE EmptyDict
update_mtime_cache(cache, f) ==
    IF exists(f) THEN Put(cache, f, Fingerprint(os_stat(f)))
    ELSE IF f \in DOMAIN cache THEN Del(cache, f) ELSE cache
\* an update_mtime that answers from the entry it is about to remove
update_mtime_value_stale(cache, f) ==
    IF exists(f) THEN Fingerprint(os_stat(f))
    ELSE IF f \in DOMAIN cache THEN cache[f] ELSE Zero
update_mtime_value(cache, f) ==
    IF exists(f) THEN update_mtime_cache(cache, f)[f] ELSE Zero

update_cache_cache(cache, f) ==
    IF f \in DOMAIN cache THEN update_mtime_cache(cache, f) ELSE cache

\* a clear_cache that rebinds nothing
clear_cache_cache_kept(cache) == cache
clear_cache_cache(cache) == EmptyDict

\* cached_mtime statement by statement: its store and its final read
\* a store that does not reach the dict
cached_mtime_stored_nowhere(cache, f, res) == cache
cached_mtime_stored(cache, f, res) == Put(cache, f, Fingerprint(res))
cached_mtime_read_raises(cache, f) == f \notin DOMAIN cache

Forget(m, f) == [m EXCEPT ![f] = Zero]
\* No cached_mtime call is running; and a running call, once another
\* thread's operation has run in the middle of it.
Idle == [pc |-> "idle"]
Raced(lk, op) == IF lk.pc = "idle" THEN lk ELSE [lk EXCEPT !.raced = @ \cup {op}]
\* What the clear_cache just before this call dropped for f, if anything.
Dropped(f) ==
    IF last.op = "clear_cache" /\ f \in DOMAIN last.arg.was
    THEN last.arg.was[f]
    ELSE Zero

CachedMtime(f) ==
    /\ mtime_cache' = cached_mtime_cache(mtime_cache, f)
    /\ IF cached_mtime_raises(mtime_cache, f)
       THEN /\ last' = Call("cached_mtime", f, Zero, Zero, "OSError")
            /\ memo' = memo
       ELSE /\ last' = Call("cached_mtime", f,
                            [again |-> memo[f] # Zero, dropped |-> Dropped(f)],
                            cached_mtime_value(mtime_cache, f), NoExc)
            /\ memo' = [memo EXCEPT ![f] = cached_mtime_value(mtime_cache, f)]
    /\ UNCHANGED <<disk, seen, depends, bbpath, changes, probed, partsVars, handleVars, restVars>>

CachedMtimeNoerror(f, obs) ==
    /\ mtime_cache' = cached_mtime_noerror_cache(mtime_cache, f)
    /\ last' = Outcome(obs, Call("cached_mtime_noerror", f,
                                 [again |-> seen[f] # <<>>],
                                 cached_mtime_noerror_value(mtime_cache, f),
                                 NoExc))
    /\ seen' = IF obs
               THEN [seen EXCEPT ![f] = <<cached_mtime_noerror_value(mtime_cache, f)>>]
               ELSE seen
    /\ UNCHANGED <<disk, memo, depends, bbpath, changes, probed, partsVars, handleVars, restVars>>

CheckMtime(f, mtime) ==
    /\ mtime_cache' = check_mtime_cache(mtime_cache, f)
    /\ last' = Call("check_mtime", f,
                    [after_update |-> /\ last.op = "update_mtime"
                                      /\ last.f = f
                                      /\ last.out = mtime,
                     was_cached |-> IF last.op = "update_mtime"
                                    THEN last.arg.was_cached
                                    ELSE f \in DOMAIN mtime_cache],
                    check_mtime_value(f, mtime), NoExc)
    /\ memo' = Forget(memo, f)
    /\ seen' = Forget(seen, f)
    /\ UNCHANGED <<disk, depends, bbpath, changes, probed, partsVars, handleVars, restVars>>

UpdateMtime(f, obs) ==
    /\ mtime_cache' = update_mtime_cache(mtime_cache, f)
    /\ last' = Outcome(obs, Call("update_mtime", f,
                                 [was_cached |-> f \in DOMAIN mtime_cache],
                                 update_mtime_value(mtime_cache, f), NoExc))
    /\ memo' = Forget(memo, f)
    /\ seen' = Forget(seen, f)
    /\ lookup' = Raced(lookup, "update_mtime")
    /\ UNCHANGED <<disk, depends, bbpath, changes, probed, partsVars, handleVars, annotVars, sigVars>>

UpdateCache(f) ==
    /\ mtime_cache' = update_cache_cache(mtime_cache, f)
    /\ last' = Call("update_cache", f, Zero, Zero, NoExc)
    /\ memo' = Forget(memo, f)
    /\ seen' = Forget(seen, f)
    /\ UNCHANGED <<disk, depends, bbpath, changes, probed, partsVars, handleVars, restVars>>

ClearCache(obs) ==
    /\ mtime_cache' = clear_cache_cache(mtime_cache)
    /\ last' = Outcome(obs, Call("clear_cache", Zero, [was |-> mtime_cache],
                                 Zero, NoExc))
    /\ memo' = [p \in Paths |-> Zero]
    /\ seen' = [p \in Paths |-> <<>>]
    /\ lookup' = Raced(lookup, "clear_cache")
    /\ UNCHANGED <<disk, depends, bbpath, changes, probed, partsVars, handleVars, annotVars, sigVars>>

(* ----------------------------- environment ---------------------------- *)

WriteFile(p, res) ==
    /\ changes < MaxChanges
    /\ disk[p] # res
    /\ disk' = [disk EXCEPT ![p] = res]
    /\ changes' = changes + 1
    /\ last' = Call("write", Zero, Zero, Zero, NoExc)
    /\ UNCHANGED <<mtime_cache, memo, seen, depends, bbpath, probed, partsVars, handleVars, restVars>>

RemoveFile(p) ==
    /\ changes < MaxChanges
    /\ disk[p] # NoFile
    /\ disk' = [disk EXCEPT ![p] = NoFile]
    /\ changes' = changes + 1
    /\ last' = Call("remove", Zero, Zero, Zero, NoExc)
    /\ UNCHANGED <<mtime_cache, memo, seen, depends, bbpath, probed, partsVars, handleVars, restVars>>

(* ------------------------- dependency recorder ------------------------ *)
\* The recorder works on the pair of the stat cache and the '__depends' list.

InSeq(x, seq) == \E i \in 1..Len(seq) : seq[i] = x

mark_dependency_path(f) == IF startswith_dotslash(f) THEN Cwd \o Tail(f) ELSE f
mark_dependency_pair(cache, f) ==
    <<mark_dependency_path(f),
      cached_mtime_noerror_value(cache, mark_dependency_path(f))>>
\* a mark_dependency without the membership test
mark_dependency_deps_always(cache, deps, f) ==
    Append(deps, mark_dependency_pair(cache, f))
mark_dependency_deps(cache, deps, f) ==
    IF InSeq(mark_dependency_pair(cache, f), deps)
    THEN deps
    ELSE Append(deps, mark_dependency_pair(cache, f))
\* a mark_dependency that passes over files that do not exist
mark_dependency_existing(st, f) ==
    IF exists(mark_dependency_path(f))
    THEN [cache |-> cached_mtime_noerror_cache(st.cache, mark_dependency_path(f)),
          deps |-> mark_dependency_deps(st.cache, st.deps, f)]
    ELSE st
mark_dependency(st, f) ==
    [cache |-> cached_mtime_noerror_cache(st.cache, mark_dependency_path(f)),
     deps |-> mark_dependency_deps(st.cache, st.deps, f)]

\* bb.utils.which(path, item, history=True): the candidates probed in
\* search-path order up to and including the first that exists, and that
\* first hit made absolute ("" when there is none).
RECURSIVE which_attempts(_, _)
which_attempts(path, item) ==
    IF path = <<>> THEN <<>>
    ELSE IF exists(join(Head(path), item))
         THEN <<join(Head(path), item)>>
         ELSE <<join(Head(path), item)>> \o which_attempts(Tail(path), item)
which_newfn(path, item) ==
    LET hist == which_attempts(path, item)
    IN IF hist # <<>> /\ exists(hist[Len(hist)])
       THEN abspath(hist[Len(hist)])
       ELSE <<>>

RECURSIVE mark_all(_, _)
mark_all(st, attempts) ==
    IF attempts = <<>> THEN st
    ELSE mark_all(mark_dependency(st, Head(attempts)), Tail(attempts))

\* a resolve_file that records the file found and not the places probed
resolve_file_state_hit_only(st, path, fn) ==
    IF ~isabs(fn)
    THEN IF which_newfn(path, fn) # <<>>
         THEN mark_dependency(st, which_newfn(path, fn))
         ELSE st
    ELSE mark_dependency(st, fn)
resolve_file_state(st, path, fn) ==
    IF ~isabs(fn)
    THEN mark_all(st, which_attempts(path, fn))
    ELSE mark_dependency(st, fn)
resolve_file_fn(path, fn) ==
    IF ~isabs(fn) THEN which_newfn(path, fn) ELSE fn
\* a resolve_file without the final os.path.isfile test
resolve_file_raises_unchecked(path, fn) ==
    ~isabs(fn) /\ which_newfn(path, fn) = <<>>
resolve_file_raises(path, fn) ==
    \/ ~isabs(fn) /\ which_newfn(path, fn) = <<>>
    \/ ~isfile(resolve_file_fn(path, fn))

Now == [cache |-> mtime_cache, deps |-> depends]

MarkDependency(f) ==
    /\ Len(mark_dependency(Now, f).deps) <= MaxDeps
    /\ mtime_cache' = mark_dependency(Now, f).cache
    /\ depends' = mark_dependency(Now, f).deps
    /\ last' = Call("mark_dependency", f,
                    [present |-> InSeq(mark_dependency_pair(mtime_cache, f),
                                       depends)],
                    mark_dependency_pair(mtime_cache, f), NoExc)
    /\ UNCHANGED <<disk, memo, seen, bbpath, changes, probed, partsVars, handleVars, restVars>>

\* s = (f, cached_mtime_noerror(f)); return s in deps
check_dependency_pair(cache, f) == <<f, cached_mtime_noerror_value(cache, f)>>
check_dependency_cache(cache, f) == cached_mtime_noerror_cache(cache, f)
check_dependency_value(st, f) == InSeq(check_dependency_pair(st.cache, f), st.deps)

CheckDependency(f) ==
    /\ mtime_cache' = check_dependency_cache(mtime_cache, f)
    /\ last' = Call("check_dependency", f,
                    [after_mark |-> last.op = "mark_dependency" /\ last.f = f],
                    check_dependency_value(Now, f), NoExc)
    /\ UNCHANGED <<disk, memo, seen, depends, bbpath, changes, probed, partsVars, handleVars, restVars>>

\* The candidates a search found absent before its hit, as recorded.
Missed(path, fn) ==
    IF isabs(fn) \/ which_newfn(path, fn) = <<>> THEN {}
    ELSE {mark_dependency_pair(mtime_cache, af) :
            af \in {which_attempts(path, fn)[i] :
                      i \in 1..(Len(which_attempts(path, fn)) - 1)}}

ResolveFile(fn) ==
    /\ Len(resolve_file_state(Now, bbpath, fn).deps) <= MaxDeps
    /\ mtime_cache' = resolve_file_state(Now, bbpath, fn).cache
    /\ depends' = resolve_file_state(Now, bbpath, fn).deps
    /\ last' = IF resolve_file_raises(bbpath, fn)
               THEN Call("resolve_file", fn, Zero, <<>>, "ENOENT")
               ELSE Call("resolve_file", fn, Zero,
                         resolve_file_fn(bbpath, fn), NoExc)
    /\ probed' = probed \cup Missed(bbpath, fn)
    /\ UNCHANGED <<disk, memo, seen, bbpath, changes, partsVars, handleVars, restVars>>

(* ----------------------- filename decomposition ----------------------- *)
\* A filename is a sequence of characters.

NoneVal == <<"None">>                   \* Python's None
Ext_bb == <<".", "b", "b">>
Ext_bbappend == <<".", "b", "b", "a", "p", "p", "e", "n", "d">>

PkgNames == {
    <<>>,                                                   \* ""
    <<"f", ".", "c", "o", "n", "f">>,                       \* f.conf
    <<"f">> \o Ext_bb,                                      \* f.bb
    <<"f", "_", "1">> \o Ext_bbappend,                      \* f_1.bbappend
    <<"f", "_", "1", ".", "2", "_", "r">> \o Ext_bb,        \* f_1.2_r.bb
    <<"a", "_", "b", "/", "f", "_", "1">> \o Ext_bb,        \* a_b/f_1.bb
    <<"f", "_", "1", "_", "2", "_", "3">> \o Ext_bb,        \* f_1_2_3.bb
    <<"f", "_", "_", "_", "_">> \o Ext_bbappend,            \* f____.bbappend
    <<"_">> \o Ext_bb                                       \* _.bb
}

endswith(s, suffix) ==
    /\ Len(s) >= Len(suffix)
    /\ SubSeq(s, Len(s) - Len(suffix) + 1, Len(s)) = suffix
rfind(s, c) ==
    IF \E i \in 1..Len(s) : s[i] = c
    THEN CHOOSE i \in 1..Len(s) : s[i] = c /\ \A j \in (i + 1)..Len(s) : s[j] # c
    ELSE 0
basename(s) == SubSeq(s, rfind(s, "/") + 1, Len(s))
\* os.path.splitext(p)[0]: p up to its last dot, unless that dot is one of
\* the dots the name starts with
splitext_root(s) ==
    IF rfind(s, ".") > rfind(s, "/")
       /\ \E i \in (rfind(s, "/") + 1)..(rfind(s, ".") - 1) : s[i] # "."
    THEN SubSeq(s, 1, rfind(s, ".") - 1)
    ELSE s
RECURSIVE split(_, _)
split(s, c) ==
    IF \A i \in 1..Len(s) : s[i] # c THEN <<s>>
    ELSE LET i == CHOOSE k \in 1..Len(s) :
                      s[k] = c /\ \A j \in 1..(k - 1) : s[j] # c
         IN <<SubSeq(s, 1, i - 1)>> \o split(SubSeq(s, i + 1, Len(s)), c)
RECURSIVE nones(_)
nones(n) == IF n = 0 THEN <<>> ELSE <<NoneVal>> \o nones(n - 1)

vars_from_file_parts(mypkg) == split(splitext_root(basename(mypkg)), "_")
vars_from_file_recognized(mypkg) ==
    mypkg # <<>> /\ (endswith(mypkg, Ext_bb) \/ endswith(mypkg, Ext_bbappend))
\* The list stored on a first call is the list the call goes on to extend, so
\* the entry holds the padded list when the call returns and the bare parts
\* when it raises.
\* a vars_from_file that stores a copy of the parts, made before the padding
vars_from_file_cache_copied(cache, mypkg) ==
    IF ~vars_from_file_recognized(mypkg) \/ mypkg \in DOMAIN cache
    THEN cache
    ELSE Put(cache, mypkg, vars_from_file_parts(mypkg))
vars_from_file_cache(cache, mypkg) ==
    IF ~vars_from_file_recognized(mypkg) \/ mypkg \in DOMAIN cache
    THEN cache
    ELSE IF Len(vars_from_file_parts(mypkg)) > 3
         THEN Put(cache, mypkg, vars_from_file_parts(mypkg))
         ELSE Put(cache, mypkg,
                  vars_from_file_parts(mypkg)
                    \o nones(3 - Len(vars_from_file_parts(mypkg))))
vars_from_file_raises(cache, mypkg) ==
    /\ vars_from_file_recognized(mypkg)
    /\ mypkg \notin DOMAIN cache
    /\ Len(vars_from_file_parts(mypkg)) > 3
vars_from_file_value(cache, mypkg) ==
    IF ~vars_from_file_recognized(mypkg)
    THEN <<NoneVal, NoneVal, NoneVal>>
    ELSE vars_from_file_cache(cache, mypkg)[mypkg]

VarsFromFile(mypkg) ==
    /\ pkgsplit_cache' = vars_from_file_cache(pkgsplit_cache, mypkg)
    /\ last' = IF vars_from_file_raises(pkgsplit_cache, mypkg)
               THEN Call("vars_from_file", mypkg,
                         [cached |-> FALSE], Zero, "ParseError")
               ELSE Call("vars_from_file", mypkg,
                         [cached |-> mypkg \in DOMAIN pkgsplit_cache],
                         vars_from_file_value(pkgsplit_cache, mypkg), NoExc)
    /\ UNCHANGED <<statVars, handleVars, restVars>>

(* ------------------------------ dispatcher ---------------------------- *)
\* A handler descriptor is its name and the set of paths its 'supports'
\* predicate accepts.  Its entry point returns a result or raises, and may
\* call handle itself for a file it includes.

FNames == {"x.conf", "x.bb", "x.txt"}
ConfHandler == [name |-> "ConfHandler", accepts |-> {"x.conf"}]
BBHandler == [name |-> "BBHandler", accepts |-> {"x.bb"}]
AnyHandler == [name |-> "AnyHandler", accepts |-> {"x.conf", "x.bb"}]
HandlerKinds == {ConfHandler, BBHandler, AnyHandler}
Registries == UNION {[1..n -> HandlerKinds] : n \in 0..MaxHandlers}

h_supports(h, fn) == fn \in h.accepts
h_result(i, fn) == [by |-> i, fn |-> fn]    \* what entry point i returns for fn

\* for h in handlers: if h['supports'](fn, data): return 1
RECURSIVE supports_from(_, _, _)
supports_from(hs, fn, i) ==
    IF i > Len(hs) THEN 0
    ELSE IF h_supports(hs[i], fn) THEN 1
    ELSE supports_from(hs, fn, i + 1)
supports_value(hs, fn) == supports_from(hs, fn, 1)

\* for h in handlers: if h['supports'](fn, data): ... the index of the
\* handler whose entry point handle invokes, 0 when the loop runs out
RECURSIVE handle_from(_, _, _)
handle_from(hs, fn, i) ==
    IF i > Len(hs) THEN 0
    ELSE IF h_supports(hs[i], fn) THEN i
    ELSE handle_from(hs, fn, i + 1)
\* a loop that keeps looking after a match, so that the last match wins
handle_chosen_last(hs, fn) ==
    IF \A i \in 1..Len(hs) : ~h_supports(hs[i], fn) THEN 0
    ELSE CHOOSE i \in 1..Len(hs) :
           h_supports(hs[i], fn) /\ \A j \in (i + 1)..Len(hs) : ~h_supports(hs[j], fn)
\* a loop that falls back on the first handler instead of raising
handle_chosen_default(hs, fn) ==
    IF handle_from(hs, fn, 1) = 0 /\ Len(hs) > 0 THEN 1
    ELSE handle_from(hs, fn, 1)
handle_chosen(hs, fn) == handle_from(hs, fn, 1)

NotBitBake(fn) == <<"not a BitBake file", fn>>     \* ParseError's arguments
\* what an entry point raises of its own: the exception and its arguments
HandlerErrors == {"SkipRecipe", "ParseError"}
h_error(exc, fn) ==
    IF exc = "ParseError" THEN <<"syntax error", fn>> ELSE <<"skipped", fn>>

Front(seq) == SubSeq(seq, 1, Len(seq) - 1)
Top == stack[Len(stack)]
\* data.inchistory.include(fn), a context manager: entering it opens the
\* scope of fn inside the scopes now open, leaving it closes that scope
include_enter(hist, fn) == Append(hist, fn)
include_exit(hist) == Front(hist)

Supports(fn) ==
    /\ last' = Call("supports", fn, Zero, supports_value(handlers, fn), NoExc)
    /\ UNCHANGED <<statVars, partsVars, handleVars, restVars>>

\* handle(fn, data) up to the call of the entry point, or to its own raise
HandleCall(fn) ==
    /\ calls < MaxCalls
    /\ Len(stack) < MaxDepth
    /\ calls' = calls + 1
    /\ IF handle_chosen(handlers, fn) = 0
       THEN /\ last' = Call("handle", fn, [depth |-> Len(stack) + 1],
                            NotBitBake(fn), "ParseError")
            /\ UNCHANGED <<stack, inchistory, invoked>>
       ELSE /\ inchistory' = include_enter(inchistory, fn)
            /\ invoked' = Append(invoked, <<handle_chosen(handlers, fn), fn>>)
            /\ stack' = Append(stack, [fn |-> fn,
                                       h |-> handle_chosen(handlers, fn)])
            /\ last' = Call("handle_call", fn, [depth |-> Len(stack) + 1],
                            Zero, NoExc)
    /\ UNCHANGED <<statVars, partsVars, handlers, restVars>>

\* the entry point returns; the with statement leaves the scope
HandlerReturn ==
    /\ stack # <<>>
    /\ stack' = Front(stack)
    /\ inchistory' = include_exit(inchistory)
    /\ last' = Call("handle", Top.fn, [depth |-> Len(stack)],
                    h_result(Top.h, Top.fn), NoExc)
    /\ UNCHANGED <<statVars, partsVars, handlers, invoked, calls, restVars>>

\* a handle whose scope is left on return only and stays open on a raise
HandlerRaiseOpen(exc) ==
    /\ stack # <<>>
    /\ stack' = Front(stack)
    /\ inchistory' = inchistory
    /\ last' = Call("handle", Top.fn, [depth |-> Len(stack)],
                    h_error(exc, Top.fn), exc)
    /\ UNCHANGED <<statVars, partsVars, handlers, invoked, calls, restVars>>

\* the entry point raises; the with statement leaves the scope
HandlerRaise(exc) ==
    /\ stack # <<>>
    /\ stack' = Front(stack)
    /\ inchistory' = include_exit(inchistory)
    /\ last' = Call("handle", Top.fn, [depth |-> Len(stack)],
                    h_error(exc, Top.fn), exc)
    /\ UNCHANGED <<statVars, partsVars, handlers, invoked, calls, restVars>>

\* the entry point lets the exception of the handle call it made pass
HandlerPropagate ==
    /\ stack # <<>>
    /\ last.op = "handle"
    /\ last.exc # NoExc
    /\ last.arg.depth = Len(stack) + 1
    /\ stack' = Front(stack)
    /\ inchistory' = include_exit(inchistory)
    /\ last' = Call("handle", Top.fn, [depth |-> Len(stack)], last.out, last.exc)
    /\ UNCHANGED <<statVars, partsVars, handlers, invoked, calls, restVars>>

(* ------------------------ dependency annotations ---------------------- *)
\* A function object is the dict of its attributes.

VarNames == {"A", "B", "C"}
NameSets == SUBSET VarNames             \* set(varnames)

hasattr(fn, attr) == attr \in DOMAIN fn
\* if not hasattr(f, attr): f.attr = set()
\* f.attr |= set(varnames)
annotate(fn, attr, varnames) ==
    Put(fn, attr, (IF hasattr(fn, attr) THEN fn[attr] ELSE {}) \cup varnames)
\* a vardeps that assigns the set instead of merging into it
vardeps_assigning(fn, varnames) == Put(fn, "bb_vardeps", varnames)
vardeps(fn, varnames) == annotate(fn, "bb_vardeps", varnames)
vardepsexclude(fn, varnames) == annotate(fn, "bb_vardepsexclude", varnames)

Vardeps(varnames) ==
    /\ Len(applied) < MaxApplied
    /\ func' = vardeps(func, varnames)
    /\ applied' = Append(applied, <<"vardeps", varnames>>)
    /\ last' = Call("vardeps", Zero, varnames, Zero, NoExc)
    /\ UNCHANGED <<statVars, partsVars, handleVars, sigVars, raceVars>>

Vardepsexclude(varnames) ==
    /\ Len(applied) < MaxApplied
    /\ func' = vardepsexclude(func, varnames)
    /\ applied' = Append(applied, <<"vardepsexclude", varnames>>)
    /\ last' = Call("vardepsexclude", Zero, varnames, Zero, NoExc)
    /\ UNCHANGED <<statVars, partsVars, handleVars, sigVars, raceVars>>

(* ------------------------- signature generator ----------------------- *)
\* bb.siggen.init(d) returns a new generator of the kind d asks for; a
\* generator's exit() tells it to shut down.  Both return normally.

SigKinds == {"noop", "basic", "basichash"}
Created(log) == Cardinality({i \in 1..Len(log) : log[i][1] = "init"})
bb_siggen_init(log, kind) == [id |-> Created(log) + 1, kind |-> kind]

\* if hasattr(bb.parse, "siggen"): bb.parse.siggen.exit()
init_parser_exited(sg, log) ==
    IF sg # <<>> THEN Append(log, <<"exit", sg[1]>>) ELSE log
\* an init_parser that installs the new generator over the old one
init_parser_siglog_unexited(sg, log, kind) ==
    Append(log, <<"init", bb_siggen_init(log, kind)>>)
init_parser_siglog(sg, log, kind) ==
    Append(init_parser_exited(sg, log),
           <<"init", bb_siggen_init(init_parser_exited(sg, log), kind)>>)
init_parser_siggen(sg, log, kind) ==
    <<bb_siggen_init(init_parser_exited(sg, log), kind)>>

InitParser(kind) ==
    /\ Created(siglog) < MaxInits
    /\ siglog' = init_parser_siglog(siggen, siglog, kind)
    /\ siggen' = init_parser_siggen(siggen, siglog, kind)
    /\ last' = Call("init_parser", Zero, [replaced |-> siggen], Zero, NoExc)
    /\ UNCHANGED <<statVars, partsVars, handleVars, annotVars, raceVars>>

(* ------------------------ a lookup in steps --------------------------- *)
\* cached_mtime(f) on one thread, a statement at a time, while another
\* thread runs clear_cache and update_mtime, each in one piece.

\* if f not in __mtime_cache:
LookupTest(f) ==
    /\ lookup.pc = "idle"
    /\ lookup' = [pc |-> IF f \in DOMAIN mtime_cache THEN "read" ELSE "stat",
                  f |-> f, res |-> NoFile, raced |-> {}]
    /\ last' = Call("cached_mtime_test", Zero, Zero, Zero, NoExc)
    /\ UNCHANGED <<statVars, partsVars, handleVars, annotVars, sigVars>>

\* res = os.stat(f)
LookupStat ==
    /\ lookup.pc = "stat"
    /\ IF exists(lookup.f)
       THEN /\ lookup' = [lookup EXCEPT !.pc = "store", !.res = os_stat(lookup.f)]
            /\ last' = Call("cached_mtime_stat", Zero, Zero, Zero, NoExc)
       ELSE /\ lookup' = Idle
            /\ last' = Call("cached_mtime", lookup.f, [raced |-> lookup.raced],
                            Zero, "OSError")
    /\ UNCHANGED <<statVars, partsVars, handleVars, annotVars, sigVars>>

\* __mtime_cache[f] = (res.st_mtime_ns, res.st_size, res.st_ino)
LookupStore ==
    /\ lookup.pc = "store"
    /\ mtime_cache' = cached_mtime_stored(mtime_cache, lookup.f, lookup.res)
    /\ lookup' = [lookup EXCEPT !.pc = "read"]
    /\ last' = Call("cached_mtime_store", Zero, Zero, Zero, NoExc)
    /\ UNCHANGED <<disk, memo, seen, depends, bbpath, changes, probed, partsVars, handleVars, annotVars, sigVars>>

\* return __mtime_cache[f]
LookupRead ==
    /\ lookup.pc = "read"
    /\ lookup' = Idle
    /\ last' = IF cached_mtime_read_raises(mtime_cache, lookup.f)
               THEN Call("cached_mtime", lookup.f, [raced |-> lookup.raced],
                         <<lookup.f>>, "KeyError")
               ELSE Call("cached_mtime", lookup.f, [raced |-> lookup.raced],
                         mtime_cache[lookup.f], NoExc)
    /\ UNCHANGED <<statVars, partsVars, handleVars, annotVars, sigVars>>

(* ---------------------------- specification --------------------------- *)

ResolveArgs == {Name, FileA, FileB}

InitRest ==
    /\ mtime_cache = EmptyDict
    /\ memo = [p \in Paths |-> Zero]
    /\ seen = [p \in Paths |-> <<>>]
    /\ depends = <<>>
    /\ changes = 0
    /\ probed = {}
    /\ pkgsplit_cache = EmptyDict
    /\ stack = <<>>
    /\ inchistory = <<>>
    /\ invoked = <<>>
    /\ calls = 0
    /\ func = EmptyDict
    /\ applied = <<>>
    /\ siggen = <<>>
    /\ siglog = <<>>
    /\ lookup = Idle
    /\ last = Call("init", Zero, Zero, Zero, NoExc)

InitStat ==
    /\ InitRest
    /\ disk \in [Files -> StatResults \cup {NoFile}]
    /\ handlers = <<>>

StatNext ==
    \/ \E f \in Paths : CachedMtime(f)
    \/ \E f \in Paths : CachedMtimeNoerror(f, FALSE)
    \/ \E f \in Paths : \E mtime \in Fingerprints \cup {Zero} : CheckMtime(f, mtime)
    \/ \E f \in Paths : UpdateMtime(f, TRUE)
    \/ \E f \in Paths : UpdateCache(f)
    \/ ClearCache(TRUE)

EnvNext ==
    \/ \E p \in Files : \E res \in StatResults : WriteFile(p, res)
    \/ \E p \in Files : RemoveFile(p)

\* The stat cache alone, under every file change.
Init == InitStat /\ bbpath = <<>>
Next == StatNext \/ EnvNext
Spec == Init /\ [][Next]_vars

\* The absent-tolerant lookup, its answers followed call by call.  Its
\* cache is the one cached_mtime fills, by the same test and the same store.
NextNoerror ==
    \/ \E f \in Paths : CachedMtimeNoerror(f, TRUE)
    \/ \E f \in Paths : \E mtime \in Fingerprints \cup {Zero} : CheckMtime(f, mtime)
    \/ \E f \in Paths : UpdateMtime(f, TRUE)
    \/ \E f \in Paths : UpdateCache(f)
    \/ ClearCache(FALSE)
    \/ EnvNext
SpecNoerror == Init /\ [][NextNoerror]_vars

\* The dependency recorder over the stat cache.  Of the cache operations it
\* takes those that add, refresh, remove and clear entries; cached_mtime,
\* check_mtime and update_cache leave no cache these do not.
\* A fingerprint is only ever compared with fingerprints of the same
\* path, so the files there at the start all show the first modification
\* time; the later ones come with the changes.
InitDeps ==
    /\ InitStat
    /\ \A p \in Files : disk[p] # NoFile => disk[p].st_mtime_ns = 1
    /\ bbpath \in SearchPaths
NextDeps ==
    \/ \E f \in Paths : MarkDependency(f)
    \/ \E fn \in ResolveArgs : ResolveFile(fn)
    \/ \E f \in Files : CachedMtimeNoerror(f, FALSE)
    \/ \E f \in Files : UpdateMtime(f, FALSE)
    \/ ClearCache(FALSE)
    \/ EnvNext
SpecDeps == InitDeps /\ [][NextDeps]_vars

\* Recording a dependency and asking for it, under every file change.
NextCheck ==
    \/ \E f \in Paths : MarkDependency(f)
    \/ \E f \in Paths : CheckDependency(f)
    \/ ClearCache(FALSE)
    \/ EnvNext
SpecCheck == Init /\ [][NextCheck]_vars

\* One thread inside cached_mtime, another clearing and refreshing the
\* cache between its statements or between its calls.
NextRace ==
    \/ \E f \in Files : LookupTest(f)
    \/ LookupStat
    \/ LookupStore
    \/ LookupRead
    \/ ClearCache(FALSE)
    \/ \E f \in Files : UpdateMtime(f, FALSE)
    \/ EnvNext
SpecRace == Init /\ [][NextRace]_vars

\* The filename decomposition cache, over an unchanging disk.
InitParts ==
    /\ InitStat
    /\ disk = [p \in Files |-> NoFile]
    /\ bbpath = <<>>
NextParts == \E mypkg \in PkgNames : VarsFromFile(mypkg)
SpecParts == InitParts /\ [][NextParts]_vars

\* The dispatcher over every registry, its handlers including other files.
InitHandle ==
    /\ InitRest
    /\ disk = [p \in Files |-> NoFile]
    /\ bbpath = <<>>
    /\ handlers \in Registries
NextHandle ==
    \/ \E fn \in FNames : Supports(fn)
    \/ \E fn \in FNames : HandleCall(fn)
    \/ HandlerReturn
    \/ \E exc \in HandlerErrors : HandlerRaise(exc)
    \/ HandlerPropagate
SpecHandle == InitHandle /\ [][NextHandle]_vars

\* The decorators, applied to one function in every order.
NextAnnot ==
    \/ \E varnames \in NameSets : Vardeps(varnames)
    \/ \E varnames \in NameSets : Vardepsexclude(varnames)
SpecAnnot == InitParts /\ [][NextAnnot]_vars

\* init_parser called again and again, for every kind of generator.
NextSiggen == \E kind \in SigKinds : InitParser(kind)
SpecSiggen == InitParts /\ [][NextSiggen]_vars

(* ----------------------------- properties ------------------------------ *)

\* C1: once cached_mtime(f) has returned a fingerprint, every later
\* cached_mtime(f) returns that same fingerprint, whatever happens to the
\* file, as long as no check_mtime(f, _), update_mtime(f), update_cache(f)
\* or clear_cache() ran in between (memo[f] is forgotten by these).
C1_Memoized ==
    [][\A f \in Paths :
         (last'.op = "cached_mtime" /\ last'.f = f /\ last'.exc = NoExc
          /\ memo[f] # Zero)
         => last'.out = memo[f]]_vars
\* a repeated cached_mtime(f) whose answer is no longer what the disk holds
C1_Witness ==
    /\ last.op = "cached_mtime"
    /\ last.exc = NoExc
    /\ last.arg.again
    /\ last.out # check_mtime_current(last.f)

\* C2: after check_mtime(f, expected) the cache holds for f what a fresh
\* stat of f gives, so that a following cached_mtime_noerror(f) reports the
\* current state of f, also when f was cached and has since been deleted.
C2_CheckRefreshes ==
    last.op = "check_mtime"
    => cached_mtime_noerror_value(mtime_cache, last.f)
         = check_mtime_current(last.f)

\* C10: check_mtime(f, update_mtime(f)) returns true when nothing happens
\* between the two calls, for an existing file, a missing file never cached
\* and a missing file that was cached before it was deleted.
C10_CheckAfterUpdate ==
    (last.op = "check_mtime" /\ last.arg.after_update) => last.out = TRUE
\* the pair of calls on a file that was cached and then deleted
C10_Witness ==
    /\ last.op = "check_mtime"
    /\ last.arg.after_update
    /\ last.arg.was_cached
    /\ ~exists(last.f)
    /\ last.out = TRUE

Count(s, c) == Cardinality({i \in 1..Len(s) : s[i] = c})
TooManySegments(mypkg) ==
    /\ endswith(mypkg, Ext_bb) \/ endswith(mypkg, Ext_bbappend)
    /\ Count(basename(mypkg), "_") >= 3
\* C3: for a .bb or .bbappend filename whose base name splits on '_' into
\* more than three segments, vars_from_file raises ParseError on every call
\* and never returns a value.
C3_AlwaysRaises ==
    (last.op = "vars_from_file" /\ TooManySegments(last.f))
    => last.exc = "ParseError"

SetMin(S) == CHOOSE x \in S : \A y \in S : x <= y
Candidate(i, fn) == join(bbpath[i], fn)
Hits(fn) == {i \in 1..Len(bbpath) : exists(Candidate(i, fn))}
FirstHit(fn) == IF Hits(fn) = {} THEN Len(bbpath) ELSE SetMin(Hits(fn))
PairsOf(deps, path) == {deps[j] : j \in {i \in 1..Len(deps) : deps[i][1] = path}}
Recorded(deps, path) == PairsOf(deps, path) # {}
NoDup(deps) == \A i, j \in 1..Len(deps) : deps[i] = deps[j] => i = j

\* C4: resolve_file with a non-absolute filename records every search-path
\* candidate probed up to and including the first hit, also those that do
\* not hold the file, records none after the hit, and returns the first hit.
C4_ResolveRecords ==
    [][(last'.op = "resolve_file" /\ ~isabs(last'.f))
       => /\ \A i \in 1..FirstHit(last'.f) :
               Recorded(depends', Candidate(i, last'.f))
          /\ \A i \in (FirstHit(last'.f) + 1)..Len(bbpath) :
               PairsOf(depends', Candidate(i, last'.f))
                 = PairsOf(depends, Candidate(i, last'.f))
          /\ Hits(last'.f) # {}
               => /\ last'.exc = NoExc
                  /\ last'.out = Candidate(FirstHit(last'.f), last'.f)]_vars
\* a search that missed in the first directory and hit in the second
C4_Witness ==
    /\ last.op = "resolve_file"
    /\ ~isabs(last.f)
    /\ ~exists(Candidate(1, last.f))
    /\ last.exc = NoExc
    /\ last.out = Candidate(2, last.f)
    /\ Recorded(depends, Candidate(1, last.f))
    /\ Recorded(depends, Candidate(2, last.f))

Stale == \E i \in 1..Len(depends) : ~check_mtime_value(depends[i][1], depends[i][2])

\* C5 as stated: after resolve_file found the file only in a lower-priority
\* directory, a file that now exists at a higher-priority candidate it
\* probed makes some recorded pair fail check_mtime.
C5_StaleSeen ==
    \A pr \in probed : exists(pr[1]) => Stale
\* C5, amended: the same, unless the stat cache held a fingerprint for that
\* candidate when it was probed and the file now there has exactly that
\* fingerprint.
C5_StaleSeenUnlessSame ==
    \A pr \in probed :
        (exists(pr[1]) /\ check_mtime_current(pr[1]) # pr[2]) => Stale
\* a file created at a candidate that was probed, absent, before the hit
C5_Witness ==
    \E pr \in probed :
        /\ exists(pr[1])
        /\ check_mtime_current(pr[1]) # pr[2]
        /\ last.op = "write"

\* C6: resolve_file raises ENOENT when a non-absolute filename is found in
\* no search directory and when an absolute path names no existing regular
\* file; the probed paths (or the absolute path) are recorded before the
\* error, and a path it returns is an existing file.
C6_NotFound ==
    [][last'.op = "resolve_file"
       => /\ (~isabs(last'.f) /\ Hits(last'.f) = {})
               => /\ last'.exc = "ENOENT"
                  /\ \A i \in 1..Len(bbpath) :
                       Recorded(depends', Candidate(i, last'.f))
          /\ (isabs(last'.f) /\ ~isfile(last'.f))
               => /\ last'.exc = "ENOENT"
                  /\ Recorded(depends', last'.f)
          /\ last'.exc = NoExc => isfile(last'.out)]_vars
\* a failed search, every candidate recorded
C6_Witness ==
    /\ last.op = "resolve_file"
    /\ ~isabs(last.f)
    /\ last.exc = "ENOENT"
    /\ Len(depends) = Len(bbpath)
    /\ \A i \in 1..Len(bbpath) : Recorded(depends, Candidate(i, last.f))

\* C7: '__depends' never holds a (path, fingerprint) pair twice, and
\* recording a pair that is already present leaves the list unchanged.
C7_NoDuplicates ==
    [][/\ NoDup(depends')
       /\ (last'.op = "mark_dependency" /\ InSeq(last'.out, depends))
            => depends' = depends]_vars
\* a pair recorded again after the files changed
C7_Witness ==
    /\ last.op = "mark_dependency"
    /\ last.arg.present
    /\ changes > 0
    /\ Len(depends) = MaxDeps

Accepting(fn) == {i \in 1..Len(handlers) : fn \in handlers[i].accepts}

\* C8: handle invokes the entry point of exactly one handler, the first in
\* registration order whose predicate accepts the path, returns that
\* handler's result, and invokes no later handler that also accepts it.
C8_FirstMatchWins ==
    [][/\ last'.op = "handle_call"
            => /\ Accepting(last'.f) # {}
               /\ invoked' = Append(invoked, <<SetMin(Accepting(last'.f)), last'.f>>)
       /\ last'.op # "handle_call" => invoked' = invoked
       /\ (last'.op = "handle" /\ last'.exc = NoExc)
            => /\ Accepting(last'.f) # {}
               /\ last'.out = h_result(SetMin(Accepting(last'.f)), last'.f)]_vars
\* a call returned by the first of two handlers that accept the path
C8_Witness ==
    /\ last.op = "handle"
    /\ last.exc = NoExc
    /\ Cardinality(Accepting(last.f)) = 2
    /\ last.out.by = 1
    /\ invoked = <<<<1, last.f>>>>

\* C9: handle raises its ParseError, carrying the path, exactly when no
\* registered handler's predicate accepts the path, which is when supports
\* returns false; then no entry point is invoked and no inclusion scope is
\* entered.
C9_Unsupported ==
    [][/\ last'.op = "supports"
            => (last'.out = 0 <=> Accepting(last'.f) = {})
       /\ last'.op = "handle_call" => Accepting(last'.f) # {}
       /\ last'.op = "handle"
            => /\ (last'.exc = "ParseError" /\ last'.out = NotBitBake(last'.f))
                    <=> Accepting(last'.f) = {}
               /\ Accepting(last'.f) = {}
                    => /\ invoked' = invoked
                       /\ inchistory' = inchistory
                       /\ stack' = stack]_vars
\* a handler includes a file that no handler of a non-empty registry accepts
C9_Witness ==
    /\ last.op = "handle"
    /\ last.exc = "ParseError"
    /\ last.out = NotBitBake(last.f)
    /\ handlers # <<>>
    /\ stack # <<>>
    /\ Len(inchistory) = Len(stack)
    /\ Len(invoked) = Len(stack)

\* C11: after clear_cache() the stat cache is empty, and a cached_mtime(f)
\* that follows it for a path f that was cached stats f again: it returns
\* the fingerprint f has now when f exists, whatever the cache held for f
\* before the clear, and raises OSError when f is gone.
C11_ClearThenLookup ==
    [][/\ last'.op = "clear_cache" => mtime_cache' = EmptyDict
       /\ \A f \in Paths :
            (last.op = "clear_cache" /\ f \in DOMAIN last.arg.was
             /\ last'.op = "cached_mtime" /\ last'.f = f)
            => IF exists(f)
               THEN /\ last'.exc = NoExc
                    /\ last'.out = Fingerprint(os_stat(f))
                    /\ mtime_cache' = Put(EmptyDict, f, Fingerprint(os_stat(f)))
               ELSE /\ last'.exc = "OSError"
                    /\ mtime_cache' = EmptyDict]_vars
\* a lookup after a clear that shows a change made before the clear
C11_Witness ==
    /\ last.op = "cached_mtime"
    /\ last.exc = NoExc
    /\ last.arg.dropped # Zero
    /\ last.arg.dropped # last.out
    /\ last.out = check_mtime_current(last.f)

\* C12 as stated: once cached_mtime_noerror has returned a value for f,
\* the absent sentinel 0 included, later calls return that same value
\* until a check_mtime, update_mtime, update_cache or clear_cache; it never
\* raises.
C12_NoerrorMemoized ==
    [][last'.op = "cached_mtime_noerror"
       => /\ last'.exc = NoExc
          /\ seen[last'.f] # <<>> => last'.out = seen[last'.f][1]]_vars
\* C12, amended: once cached_mtime_noerror has returned a fingerprint for
\* f, later calls return that same fingerprint until a check_mtime,
\* update_mtime, update_cache or clear_cache; a failed stat gives 0 and no
\* error, and after a 0 a later call returns what the cache or the file
\* shows by then.
C12_NoerrorMemoizedFingerprint ==
    [][last'.op = "cached_mtime_noerror"
       => /\ last'.exc = NoExc
          /\ (seen[last'.f] # <<>> /\ seen[last'.f] # <<Zero>>)
               => last'.out = seen[last'.f][1]
          /\ (last'.f \notin DOMAIN mtime_cache /\ ~exists(last'.f))
               => last'.out = Zero
          /\ (last'.f \notin DOMAIN mtime_cache /\ exists(last'.f))
               => last'.out = Fingerprint(os_stat(last'.f))]_vars
\* a repeated cached_mtime_noerror(f) answering with the fingerprint of a
\* file that has since changed or gone
C12_Witness ==
    /\ last.op = "cached_mtime_noerror"
    /\ last.arg.again
    /\ last.out # Zero
    /\ last.out # check_mtime_current(last.f)

SameEntry(p) ==
    /\ p \in DOMAIN mtime_cache' <=> p \in DOMAIN mtime_cache
    /\ p \in DOMAIN mtime_cache => mtime_cache'[p] = mtime_cache[p]
\* C13: update_mtime(f) sets the entry of f to the fingerprint f has now
\* and returns it when f exists, removes the entry of f and returns 0
\* when f does not exist, and leaves the entry of every other path string
\* as it was, the other names of the same file included.
C13_UpdateFrame ==
    [][last'.op = "update_mtime"
       => /\ \A p \in Paths \ {last'.f} : SameEntry(p)
          /\ DOMAIN mtime_cache' \subseteq DOMAIN mtime_cache \cup {last'.f}
          /\ last'.exc = NoExc
          /\ IF exists(last'.f)
             THEN /\ last'.f \in DOMAIN mtime_cache'
                  /\ mtime_cache'[last'.f] = Fingerprint(os_stat(last'.f))
                  /\ last'.out = Fingerprint(os_stat(last'.f))
             ELSE /\ last'.f \notin DOMAIN mtime_cache'
                  /\ last'.out = Zero]_vars
\* the entry of a deleted file removed, the entry under the file's other
\* name and the entry of another file left as they were
C13_Witness ==
    /\ last.op = "update_mtime"
    /\ last.f = FileA
    /\ last.arg.was_cached
    /\ ~exists(last.f)
    /\ last.out = Zero
    /\ DOMAIN mtime_cache = {DotFile, FileB}

Given(kind) == {i \in 1..Len(applied) : applied[i][1] = kind}
NamesGiven(kind) == UNION {applied[i][2] : i \in Given(kind)}
Merged(attr, kind) ==
    IF Given(kind) = {} THEN ~hasattr(func, attr)
    ELSE hasattr(func, attr) /\ func[attr] = NamesGiven(kind)
\* C14: after any sequence of vardeps and vardepsexclude applications to
\* one function, its bb_vardeps is the union of the name sets given to
\* vardeps and its bb_vardepsexclude the union of those given to
\* vardepsexclude, each attribute absent while its decorator has not been
\* applied; so neither decorator changes the other's attribute.
C14_Additive ==
    /\ Merged("bb_vardeps", "vardeps")
    /\ Merged("bb_vardepsexclude", "vardepsexclude")
\* {A, B} then {B, C} given to vardeps, an exclusion in between
C14_Witness ==
    /\ applied = << <<"vardeps", {"A", "B"}>>, <<"vardepsexclude", {"A"}>>,
                    <<"vardeps", {"B", "C"}>> >>
    /\ func["bb_vardeps"] = {"A", "B", "C"}
    /\ func["bb_vardepsexclude"] = {"A"}

RecipeName(mypkg) ==
    mypkg # <<>> /\ (endswith(mypkg, Ext_bb) \/ endswith(mypkg, Ext_bbappend))
\* the base name without its .bb or .bbappend
Stem(mypkg) ==
    IF endswith(mypkg, Ext_bbappend)
    THEN SubSeq(basename(mypkg), 1, Len(basename(mypkg)) - Len(Ext_bbappend))
    ELSE SubSeq(basename(mypkg), 1, Len(basename(mypkg)) - Len(Ext_bb))
RECURSIVE Joined(_)
Joined(ps) ==
    IF Len(ps) = 0 THEN <<>>
    ELSE IF Len(ps) = 1 THEN ps[1]
    ELSE ps[1] \o <<"_">> \o Joined(Tail(ps))
\* out is the k segments of the stem, in order, then 3 - k None
SegmentsPadded(out, mypkg) ==
    LET k == Count(Stem(mypkg), "_") + 1
    IN /\ Len(out) = 3
       /\ \A i \in 1..k : out[i] # NoneVal /\ Count(out[i], "_") = 0
       /\ \A i \in (k + 1)..3 : out[i] = NoneVal
       /\ Joined(SubSeq(out, 1, k)) = Stem(mypkg)
\* C15: for a .bb or .bbappend filename whose base name has k <= 3
\* segments between underscores, every call of vars_from_file, the first
\* and those answered from the cache, returns those k segments in order
\* followed by 3 - k None; for any other name it returns three None and
\* the cache stays as it was.
C15_PartsPadded ==
    [][last'.op = "vars_from_file"
       => /\ (RecipeName(last'.f) /\ Count(Stem(last'.f), "_") < 3)
               => /\ last'.exc = NoExc
                  /\ SegmentsPadded(last'.out, last'.f)
                  /\ last'.f \in DOMAIN pkgsplit_cache
                       => last'.out = pkgsplit_cache[last'.f]
                  /\ pkgsplit_cache'[last'.f] = last'.out
          /\ ~RecipeName(last'.f)
               => /\ last'.exc = NoExc
                  /\ last'.out = <<NoneVal, NoneVal, NoneVal>>
                  /\ pkgsplit_cache' = pkgsplit_cache]_vars
\* a two-segment name answered from the cache, padded as on the first call
C15_Witness ==
    /\ last.op = "vars_from_file"
    /\ last.arg.cached
    /\ last.f = <<"f", "_", "1">> \o Ext_bbappend
    /\ last.out = << <<"f">>, <<"1">>, NoneVal >>
    /\ <<"f", ".", "c", "o", "n", "f">> \notin DOMAIN pkgsplit_cache

Events(what, g) == {i \in 1..Len(siglog) : siglog[i] = <<what, g>>}
Made == {siglog[i][2] : i \in {j \in 1..Len(siglog) : siglog[j][1] = "init"}}
Active == {g \in Made : Events("exit", g) = {}}
Replaced == {g \in Made : siggen # <<g>>}
\* C16: after any number of init_parser calls at most one generator has
\* been created and not told to exit, and it is the installed one; every
\* generator that was replaced has had exit called exactly once, after its
\* creation and just before the creation of the generator replacing it.
C16_OneActive ==
    /\ Cardinality(Active) <= 1
    /\ Active = {g \in Made : siggen = <<g>>}
    /\ \A i \in 1..Len(siglog) : siglog[i][1] = "exit" => siglog[i][2] \in Made
    /\ \A g \in Made : Cardinality(Events("init", g)) = 1
    /\ \A g \in Replaced :
         /\ Cardinality(Events("exit", g)) = 1
         /\ \A i \in Events("exit", g) :
              /\ \A j \in Events("init", g) : j < i
              /\ i < Len(siglog)
              /\ siglog[i + 1][1] = "init"
              /\ siglog[i + 1][2].id = g.id + 1
\* the third generator installed, the first two replaced
C16_Witness ==
    /\ last.op = "init_parser"
    /\ last.arg.replaced # <<>>
    /\ Cardinality(Replaced) = 2
    /\ Len(siglog) = 5
    /\ siggen[1].id = 3

OpenScopes == [i \in 1..Len(stack) |-> stack[i].fn]
\* C17: the open inclusion scopes are at every moment those of the handle
\* calls in progress, outermost first: handle opens the scope of its path
\* with the invocation of the chosen handler, and closes it when the
\* handler returns and when it raises, leaving the scopes as they were
\* before the call; with no call in progress no scope is open.
C17_ScopesBalanced ==
    [][/\ inchistory' = OpenScopes'
       /\ last'.op = "handle_call"
            => /\ inchistory' = Append(inchistory, last'.f)
               /\ invoked' = Append(invoked, <<handle_chosen(handlers, last'.f),
                                                inchistory'[Len(inchistory')]>>)
       /\ (last'.op = "handle" /\ Accepting(last'.f) # {})
            => /\ inchistory # <<>>
               /\ inchistory[Len(inchistory)] = last'.f
               /\ inchistory' = SubSeq(inchistory, 1, last'.arg.depth - 1)
       /\ stack' = <<>> => inchistory' = <<>>]_vars
\* a handler's own raise after a nested call that returned, and the raise
\* passed on by the outermost call: no scope left open
C17_Witness ==
    /\ last.op = "handle"
    /\ last.exc = "SkipRecipe"
    /\ last.arg.depth = 1
    /\ Len(invoked) = 3
    /\ stack = <<>>
    /\ inchistory = <<>>

\* C18: a check_dependency(d, p) made right after mark_dependency(d, p),
\* with no file change and no cache operation in between, returns true,
\* for every path p, those starting with './' included.
C18_RoundTrip ==
    (last.op = "check_dependency" /\ last.arg.after_mark) => last.out = TRUE

Stored(p) ==
    /\ p \in DOMAIN mtime_cache'
    /\ p \in DOMAIN mtime_cache => mtime_cache'[p] # mtime_cache[p]
\* C19: the stat cache never holds the absent sentinel 0: every entry is a
\* (mtime_ns, size, inode) triple, a step that stores an entry for a path
\* stores what os.stat gives for that path at that step, the path
\* existing, and no step stores an entry for a path that does not exist.
C19_OnlyFingerprints ==
    [][\A p \in DOMAIN mtime_cache' :
         /\ p \in Paths
         /\ mtime_cache'[p] # Zero
         /\ mtime_cache'[p] \in Fingerprints
         /\ Stored(p) => /\ exists(p)
                         /\ disk' = disk
                         /\ mtime_cache'[p] = Fingerprint(os_stat(p))]_vars
\* a lookup that failed on a deleted file while other entries, one of
\* them out of date, are in the cache
C19_Witness ==
    /\ last.op = "cached_mtime"
    /\ last.exc = "OSError"
    /\ last.f \notin DOMAIN mtime_cache
    /\ \E p \in DOMAIN mtime_cache : mtime_cache[p] # check_mtime_current(p)
    /\ changes > 0

\* C20: a cached_mtime(f) that no clear_cache and no update_mtime of
\* another thread ran into returns a fingerprint whenever f was cached or
\* existed when stat was called, and raises OSError otherwise; it ends in
\* a missing-key error only when clear_cache or update_mtime ran between
\* its membership test and its final read, after which f is not in the
\* cache.
C20_KeyErrorOnlyRaced ==
    [][last'.op = "cached_mtime"
       => /\ last'.exc = "KeyError"
               => /\ last'.arg.raced # {}
                  /\ last'.f \notin DOMAIN mtime_cache
          /\ last'.arg.raced = {}
               => IF lookup.pc = "stat"
                  THEN last'.exc = "OSError" /\ ~exists(last'.f)
                  ELSE /\ last'.exc = NoExc
                       /\ last'.out \in Fingerprints
                       /\ last'.out = mtime_cache[last'.f]]_vars
\* the call on an existing file, failed on its final read because of a
\* clear_cache alone
C20_Witness ==
    /\ last.op = "cached_mtime"
    /\ last.exc = "KeyError"
    /\ last.arg.raced = {"clear_cache"}
    /\ exists(last.f)
    /\ changes = 0

====
